---- MODULE Spec2Model ----
(***************************************************************************)
(* Model of simtrans/vrml.py: VRMLReader.read (absolute pose resolution)   *)
(* followed by VRMLWriter.write (revolute2 decomposition, shape naming,    *)
(* root partition, relative pose decomposition and joint id assignment).   *)
(*                                                                         *)
(* Conventions of the model:                                               *)
(*  - Python's None is the empty tuple, or "None" where a string is held. *)
(*  - 4x4 homogeneous matrices are tuples of four rows of four integers.   *)
(*    Rotations are quarter turns about a coordinate axis, so that every   *)
(*    product and inverse is computed exactly over the integers.           *)
(*  - masses are counted in thousandths (0.001 is 1).                      *)
(*  - Python's 0-based indices into lists are 1-based here.                *)
(***************************************************************************)
EXTENDS Integers, Sequences, FiniteSets, TLC

VARIABLES
    pc,        \* position in the pipeline
    src,       \* the loaded source model (self._model of the reader), or None
    mname,     \* mdata.name
    links,     \* mdata.links
    joints,    \* mdata.joints
    shapes,    \* the ShapeModel objects: shapes[id] is the name of object id
    uuids,     \* number of uuid1() values generated so far
    froots,    \* self._roots of the writer
    roots,     \* the local list `roots` of write: <<link name, attachment>>
    files,     \* the model files rendered so far, in order
    direct,    \* result of a direct call of renderchildren, or None
    log,       \* logging.warning messages emitted so far
    sdata,     \* the shape handed to readMesh, with its appearance, or None
    mesh,      \* the MeshData readMesh returned, or None
    conn       \* the connection of read to the model loader, or None

vars == <<pc, src, mname, links, joints, shapes, uuids, froots, roots, files, direct, log,
          sdata, mesh, conn>>

\* the state of the reader and the writer from the loaded model on
pipeline == <<pc, src, mname, links, joints, shapes, uuids, froots, roots, files, direct, log>>

\* Python's None, for a field that holds a matrix, a vector, a list or an object
None == <<>>
\* Python's None, for a field that holds a string
NoneStr == "None"

\* F applied to the value of v, v being evaluated once
With(v, F(_)) == CHOOSE r \in {F(x) : x \in {v}} : TRUE

----------------------------------------------------------------------------
(* Bounds of the model *)

MaxLinks == 3
MaxShapes == 2

----------------------------------------------------------------------------
(* numpy / thirdparty.transformations, on the integer grid *)

Identity4 == <<<<1,0,0,0>>, <<0,1,0,0>>, <<0,0,1,0>>, <<0,0,0,1>>>>

\* numpy.dot of two 4x4 matrices
Dot(A, B) ==
    [i \in 1..4 |-> [j \in 1..4 |->
        A[i][1]*B[1][j] + A[i][2]*B[2][j] + A[i][3]*B[3][j] + A[i][4]*B[4][j]]]

Cos4(q) == <<1, 0, -1, 0>>[(q % 4) + 1]
Sin4(q) == <<0, 1, 0, -1>>[(q % 4) + 1]

\* tf.quaternion_about_axis(angle, axis): the rotation by q quarter turns
\* about the coordinate axis ax, kept as the pair it was built from
QuaternionAboutAxis(q, ax) == [q |-> q % 4, ax |-> ax]

\* tf.quaternion_matrix restricted to the upper 3x3 block
QuaternionMatrix(r) ==
    LET c == Cos4(r.q)
        s == Sin4(r.q)
    IN  CASE r.ax = "x" -> <<<<1, 0, 0>>, <<0, c, -s>>, <<0, s, c>>>>
          [] r.ax = "y" -> <<<<c, 0, s>>, <<0, 1, 0>>, <<-s, 0, c>>>>
          [] OTHER      -> <<<<c, -s, 0>>, <<s, c, 0>>, <<0, 0, 1>>>>

\* the homogeneous matrix of a translation vector and a rotation
ComposeMatrix(t, r) ==
    LET R == QuaternionMatrix(r)
    IN  <<<<R[1][1], R[1][2], R[1][3], t[1]>>,
          <<R[2][1], R[2][2], R[2][3], t[2]>>,
          <<R[3][1], R[3][2], R[3][3], t[3]>>,
          <<0, 0, 0, 1>>>>

Det3(A) ==
      A[1][1] * (A[2][2]*A[3][3] - A[2][3]*A[3][2])
    - A[1][2] * (A[2][1]*A[3][3] - A[2][3]*A[3][1])
    + A[1][3] * (A[2][1]*A[3][2] - A[2][2]*A[3][1])

\* adjugate of the upper-left 3x3 block
Adj3(A) ==
    <<<<A[2][2]*A[3][3] - A[2][3]*A[3][2],
        A[1][3]*A[3][2] - A[1][2]*A[3][3],
        A[1][2]*A[2][3] - A[1][3]*A[2][2]>>,
      <<A[2][3]*A[3][1] - A[2][1]*A[3][3],
        A[1][1]*A[3][3] - A[1][3]*A[3][1],
        A[1][3]*A[2][1] - A[1][1]*A[2][3]>>,
      <<A[2][1]*A[3][2] - A[2][2]*A[3][1],
        A[1][2]*A[3][1] - A[1][1]*A[3][2],
        A[1][1]*A[2][2] - A[1][2]*A[2][1]>>>>

\* numpy.linalg.pinv of an invertible affine matrix [A t; 0 1]: its inverse
\* [A^-1  -A^-1 t; 0 1], with A^-1 = adj(A) / det(A) (det is 1 or -1 here)
Pinv(M) ==
    LET d == Det3(M)
        a == Adj3(M)
        I == [i \in 1..3 |-> [j \in 1..3 |-> a[i][j] \div d]]
        u == [i \in 1..3 |-> -(I[i][1]*M[1][4] + I[i][2]*M[2][4] + I[i][3]*M[3][4])]
    IN  <<<<I[1][1], I[1][2], I[1][3], u[1]>>,
          <<I[2][1], I[2][2], I[2][3], u[2]>>,
          <<I[3][1], I[3][2], I[3][3], u[3]>>,
          <<0, 0, 0, 1>>>>

\* numpy.allclose(M, numpy.identity(4)) on exact integer matrices
AllcloseIdentity(M) == M = Identity4

----------------------------------------------------------------------------
(* simtrans.model: the entities, as the reader and the writer use them *)

\* model.AxisData(): no limits until the reader finds them
NewAxis == [axis |-> <<0, 0, 0>>, limit |-> None, velocitylimit |-> None, effortlimit |-> None]

\* model.JointModel(): an identity pose in the translation/rotation form
NewJoint ==
    [name |-> NoneStr, parent |-> NoneStr, child |-> NoneStr, jointType |-> NoneStr,
     jointId |-> -1, axis |-> NewAxis, axis2 |-> None,
     matrix |-> None, trans |-> <<0, 0, 0>>, rot |-> QuaternionAboutAxis(0, "z"),
     offsetPosition |-> FALSE]

\* model.LinkModel(): an identity pose, no mass, no shapes
NewLink ==
    [name |-> NoneStr, mass |-> 0,
     matrix |-> None, trans |-> <<0, 0, 0>>, rot |-> QuaternionAboutAxis(0, "z"),
     visuals |-> <<>>, collisions |-> <<>>, translated |-> None]

\* TransformationModel.getmatrix(): the matrix when it is set, else the
\* matrix of the translation/rotation pair
GetMatrix(o) ==
    IF o.matrix # None THEN o.matrix ELSE ComposeMatrix(o.trans, o.rot)

J_FIXED == "fixed"
J_REVOLUTE == "revolute"
J_REVOLUTE2 == "revolute2"
J_PRISMATIC == "prismatic"
J_SCREW == "screw"
J_CONTINUOUS == "continuous"
J_CRAWLER == "crawler"

----------------------------------------------------------------------------
(* VRMLReader *)

\* the reader's state while read() runs: self._joints, self._links, the
\* shape objects created so far, self._linknamemap, and whether an
\* exception has been raised
NewReader ==
    [joints |-> <<>>, links |-> <<>>, shapes |-> <<>>,
     linknamemap |-> ("world" :> "world"), err |-> NoneStr]

\* readLink, name of the link: its first segment's name when it has segments
ReadLinkName(m) ==
    IF Len(m.segments) > 0 THEN m.segments[1] ELSE m.name

\* readLink, name of the shape built for shape index s
ReadShapeName(lname, s) == lname \o "-shape-" \o ToString(s)

\* readLink: <<link model, shape objects after the call>>; every shape
\* object is appended to the visuals and to the collisions of the link
ReadLink(shp, m) ==
    LET lname == ReadLinkName(m)
        n     == Len(m.shapeIndices)
        ids   == [k \in 1..n |-> Len(shp) + k]
        lm    == [NewLink EXCEPT !.name = lname, !.mass = m.mass,
                                 !.visuals = ids, !.collisions = ids]
    IN  <<lm, shp \o [k \in 1..n |-> ReadShapeName(lname, m.shapeIndices[k])]>>

\* readChild, the position limit: [ulimit[0], llimit[0]], or unset when
\* either list is empty (IndexError); a number v is held as <<v>>, so that
\* an entry can be compared with None
ReadLimit(child) ==
    IF Len(child.ulimit) > 0 /\ Len(child.llimit) > 0
    THEN <<<<child.ulimit[1]>>, <<child.llimit[1]>>>>
    ELSE None

\* readChild, the joint type of a source tag; None when the tag is
\* unsupported
\* (the code raises)
ReadJointType(tag, limit) ==
    CASE tag = "fixed"  -> J_FIXED
      [] tag = "rotate" ->
            IF limit = None \/ (limit[1] = None /\ limit[2] = None)
            THEN J_CONTINUOUS ELSE J_REVOLUTE
      [] tag = "slide"   -> J_PRISMATIC
      [] tag = "crawler" -> J_CRAWLER
      [] tag = "pseudoContinuousTrack" -> J_CRAWLER
      [] OTHER -> NoneStr

\* readChild, conversion to the absolute position
AbsoluteMatrix(parent, jm) == Dot(GetMatrix(parent), GetMatrix(jm))

\* readChild, the joint built for `child` under the joint `parent`
ReadJoint(parent, child) ==
    LET limit == ReadLimit(child)
        jm0 == [NewJoint EXCEPT
                  !.parent = parent.name, !.child = child.name,
                  !.name = child.name, !.jointId = child.jointId,
                  !.axis = [NewAxis EXCEPT !.limit = limit, !.axis = child.jointAxis],
                  !.jointType = ReadJointType(child.jointType, limit),
                  !.trans = child.translation,
                  !.rot = QuaternionAboutAxis(child.rotation[2], child.rotation[1])]
    IN  [jm0 EXCEPT !.matrix = AbsoluteMatrix(parent, jm0),
                    !.trans = None, !.rot = None]

\* readChild, the link built for `child`: it takes the joint's matrix
ReadChildLink(lm, jm) ==
    [lm EXCEPT !.matrix = GetMatrix(jm), !.trans = None, !.rot = None]

\* mutant of ReadAppend: the joint and the link are put at the front
ReadPrepend(st, jm, lm, shp, cname) ==
    [st EXCEPT !.joints = <<jm>> \o @,
               !.links = <<lm>> \o @,
               !.shapes = shp,
               !.linknamemap = (cname :> lm.name) @@ @]

\* readChild, the two appends and the entry readLink makes in the name map
ReadAppend(st, jm, lm, shp, cname) ==
    [st EXCEPT !.joints = Append(@, jm),
               !.links = Append(@, lm),
               !.shapes = shp,
               !.linknamemap = (cname :> lm.name) @@ @]

RECURSIVE ReadChild(_, _, _, _)
RECURSIVE ReadChildren(_, _, _, _)

\* the loop `for c in child.childIndices: self.readChild(jm, ...)`
ReadChildren(H, st, parent, cs) ==
    With(st, LAMBDA s :
        IF cs = <<>> \/ s.err # NoneStr THEN s
        ELSE ReadChildren(H, ReadChild(H, s, parent, Head(cs)), parent, Tail(cs)))

\* readChild(parent, child), child being H[ci]
ReadChild(H, st, parent, ci) ==
    LET child == H[ci]
        jm    == ReadJoint(parent, child)
    IN  IF jm.jointType = NoneStr
        THEN [st EXCEPT !.err = "unsupported joint type: " \o child.jointType]
        ELSE LET rl  == ReadLink(st.shapes, child)
                 lm  == ReadChildLink(rl[1], jm)
                 st1 == ReadAppend(st, jm, lm, rl[2], child.name)
             IN  ReadChildren(H, st1, jm, child.childIndices)

\* read, the traversal from the root link hrplinks[0]
ReadTree(H) ==
    LET root == H[1]
    IN  IF root.jointType = "fixed"
        THEN ReadChild(H, NewReader, [NewJoint EXCEPT !.name = "world"], 1)
        ELSE LET rl == ReadLink(<<>>, root)
                 st == [NewReader EXCEPT
                          !.links = <<rl[1]>>, !.shapes = rl[2],
                          !.linknamemap = (root.name :> rl[1].name) @@ @]
             IN  ReadChildren(H, st, [NewJoint EXCEPT !.name = root.name],
                              root.childIndices)

\* read, the joint built for an extra joint of a closed link model
ReadExtraJoint(j) ==
    [NewJoint EXCEPT
       !.jointType = J_REVOLUTE, !.parent = j.link[1], !.child = j.link[2],
       !.name = j.name, !.axis = [NewAxis EXCEPT !.axis = j.axis],
       !.trans = j.point[2], !.offsetPosition = TRUE]

\* read, the final renaming of the joints' ends through self._linknamemap
RemapJoint(j, map) == [j EXCEPT !.parent = map[j.parent], !.child = map[j.child]]

\* read(f): the reader's state when it returns (err set when it raised)
ReadModel(M) ==
    With(ReadTree(M.links), LAMBDA st :
        LET js == st.joints \o [k \in 1..Len(M.extraJoints) |->
                                   ReadExtraJoint(M.extraJoints[k])]
        IN  IF st.err # NoneStr THEN st
            ELSE [st EXCEPT !.joints =
                     [k \in 1..Len(js) |-> RemapJoint(js[k], st.linknamemap)]])

----------------------------------------------------------------------------
(* simtrans.utils, as the specification describes it *)

\* a joint the reader appended for a closed loop (an "extra joint")
IsExtraJoint(j) == j.offsetPosition

\* the indices of the tree joints of js whose parent is the link `name`
ChildJointIndices(js, name) ==
    {k \in 1..Len(js) : js[k].parent = name /\ ~IsExtraJoint(js[k])}

RECURSIVE SortedSeq(_)
\* the elements of a finite set of integers, in increasing order
SortedSeq(S) ==
    IF S = {} THEN <<>>
    ELSE LET m == CHOOSE x \in S : \A y \in S : x <= y
         IN  <<m>> \o SortedSeq(S \ {m})

\* utils.findchildren(mdata, linkname): the tree joints leaving the link,
\* in the order of mdata.joints
FindChildren(js, name) ==
    LET idx == SortedSeq(ChildJointIndices(js, name))
    IN  [k \in 1..Len(idx) |-> js[idx[k]]]

\* a link name has an incoming tree joint
HasIncoming(js, name) ==
    \E k \in 1..Len(js) : js[k].child = name /\ ~IsExtraJoint(js[k])

\* utils.findroot(mdata): "world" when a tree joint leaves it and none
\* enters it, then every link of the body without an incoming tree joint,
\* in the order of mdata.links
FindRoot(ls, js) ==
    LET w   == IF ChildJointIndices(js, "world") # {} /\ ~HasIncoming(js, "world")
               THEN <<"world">> ELSE <<>>
        idx == SortedSeq({k \in 1..Len(ls) :
                   /\ ~HasIncoming(js, ls[k].name)
                   /\ ls[k].name # "world" \/ w = <<>>
                   /\ \A i \in 1..(k-1) : ls[i].name # ls[k].name})
    IN  w \o [k \in 1..Len(idx) |-> ls[idx[k]].name]

----------------------------------------------------------------------------
(* VRMLWriter.write: revolute2 decomposition *)

\* the very small mass 0.001, in thousandths
SmallMass == 1

\* the link put between the two revolute joints
Revolute2Link(j) ==
    [NewLink EXCEPT !.name = j.name \o "_REVOLUTE2_LINK",
                    !.matrix = GetMatrix(j), !.trans = None, !.rot = None,
                    !.mass = SmallMass]

\* mutant of Revolute2Second: the copy keeps the first axis of j
Revolute2SecondFirstAxis(j, nl) ==
    [j EXCEPT !.name = j.name \o "_SECOND", !.jointType = J_REVOLUTE,
              !.parent = nl.name, !.child = j.child]

\* the second revolute joint: a copy of j from the new link to j's child
Revolute2Second(j, nl) ==
    [j EXCEPT !.name = j.name \o "_SECOND", !.jointType = J_REVOLUTE,
              !.parent = nl.name, !.child = j.child, !.axis = j.axis2]

\* the first revolute joint: j itself, now ending at the new link
Revolute2First(j, nl) ==
    [j EXCEPT !.jointType = J_REVOLUTE, !.child = nl.name]

RECURSIVE SplitRevolute2(_, _, _)
\* `for j in mdata.joints` from position i on; the list grows while the
\* loop runs, and the loop visits the joints it appended
SplitRevolute2(i, js0, ls0) ==
    With(<<js0, ls0>>, LAMBDA m :
        LET js == m[1]
            ls == m[2]
        IN  IF i > Len(js) THEN <<js, ls>>
            ELSE IF js[i].jointType = J_REVOLUTE2
                 THEN LET nl == Revolute2Link(js[i])
                          nj == Revolute2Second(js[i], nl)
                      IN  SplitRevolute2(i + 1,
                              Append([js EXCEPT ![i] = Revolute2First(js[i], nl)], nj),
                              Append(ls, nl))
                 ELSE SplitRevolute2(i + 1, js, ls))

----------------------------------------------------------------------------
(* VRMLWriter.write: names of the visual and collision shapes *)

\* str(uuid.uuid1()).replace('-', ''): a string no earlier call returned
\* and no shape is named after
Uuid1(n) == "uuid" \o ToString(n)

\* mutant of ShapeName: the name made of the link's name is not checked
ShapeNameUnchecked(name, lname, suffix, used, n) ==
    IF name \in used THEN <<lname \o suffix, n>> ELSE <<name, n>>

\* the name a shape gets: <<name, number of uuids generated so far>>
ShapeName(name, lname, suffix, used, n) ==
    IF name \in used
    THEN IF (lname \o suffix) \in used
         THEN <<lname \o suffix \o "-" \o Uuid1(n + 1), n + 1>>
         ELSE <<lname \o suffix, n>>
    ELSE <<name, n>>

RECURSIVE NameShapes(_, _, _, _)
\* `for v in l.visuals` (suffix "-visual") or `for c in l.collisions`
\* (suffix "-collision") over the shape objects ids;
\* st = [shapes, used, uuids]
NameShapes(ids, lname, suffix, st0) ==
    With(st0, LAMBDA st :
        IF ids = <<>> THEN st
        ELSE LET id == Head(ids)
                 nn == ShapeName(st.shapes[id], lname, suffix, st.used, st.uuids)
             IN  NameShapes(Tail(ids), lname, suffix,
                            [shapes |-> [st.shapes EXCEPT ![id] = nn[1]],
                             used   |-> st.used \cup {nn[1]},
                             uuids  |-> nn[2]]))

RECURSIVE NameLinks(_, _)
\* `for l in mdata.links`: the visuals of a link, then its collisions
NameLinks(ls, st0) ==
    With(st0, LAMBDA st :
        IF ls = <<>> THEN st
        ELSE LET l == Head(ls)
             IN  NameLinks(Tail(ls),
                     NameShapes(l.collisions, l.name, "-collision",
                         NameShapes(l.visuals, l.name, "-visual", st))))

----------------------------------------------------------------------------
(* VRMLWriter.write: the roots *)

\* mutant of ClassifyRoots: only the first root found is looked at
ClassifyRootsFirstOnly(rs, js) ==
    IF rs = <<>> THEN <<>>
    ELSE IF Head(rs) = "world"
         THEN LET cs == {k \in 1..Len(js) : js[k].parent = "world"}
                  ix == CHOOSE q \in [1..Cardinality(cs) -> cs] :
                           \A a, b \in 1..Cardinality(cs) : a < b => q[a] < q[b]
              IN  [k \in 1..Cardinality(cs) |-> <<js[ix[k]].child, "fixed">>]
         ELSE <<<<Head(rs), "free">>>>

RECURSIVE ClassifyRoots(_, _)
\* the list `roots`: the children of "world" are fixed, any other root is free
ClassifyRoots(rs, js) ==
    IF rs = <<>> THEN <<>>
    ELSE LET root == Head(rs)
             here == IF root = "world"
                     THEN LET cs == FindChildren(js, root)
                          IN  [k \in 1..Len(cs) |-> <<cs[k].child, "fixed">>]
                     ELSE <<<<root, "free">>>>
         IN  here \o ClassifyRoots(Tail(rs), js)

\* self._linkmap[name]: "world" is an empty link unless the body has a link
\* of that name; of links of one name the last is kept
LinkMap(ls, name) ==
    LET S == {k \in 1..Len(ls) : ls[k].name = name}
    IN  IF S = {} THEN NewLink
        ELSE ls[CHOOSE k \in S : \A i \in S : i <= k]

\* mutant of ModelFileName: every root is written to the caller's file
ModelFileNameAlways(fname, name, rs, r) == fname

\* the name of the model file of root r; the names of the model have no
\* "::" for replace('::', '_') to change
ModelFileName(fname, name, rs, r) ==
    IF Len(rs) = 1 THEN fname ELSE name \o "-" \o r[1] \o ".wrl"

----------------------------------------------------------------------------
(* VRMLWriter.convertchildren / renderchildren / convertjointtype *)

\* mutant of ConvertJointType: a type without mapping is written as "fixed"
ConvertJointTypeCoerced(t) ==
    CASE t = J_REVOLUTE   -> "rotate"
      [] t = J_PRISMATIC  -> "slide"
      [] t = J_SCREW      -> "rotate"
      [] t = J_CONTINUOUS -> "rotate"
      [] OTHER            -> "fixed"

\* convertjointtype(t); NoneStr when the type is unsupported (the code raises)
ConvertJointType(t) ==
    CASE t = J_FIXED      -> "fixed"
      [] t = J_REVOLUTE   -> "rotate"
      [] t = J_PRISMATIC  -> "slide"
      [] t = J_SCREW      -> "rotate"
      [] t = J_CONTINUOUS -> "rotate"
      [] OTHER            -> NoneStr

\* mutant of RelativeJointMatrix: the factors are multiplied the other way round
RelativeJointMatrixSwapped(pjoint, cjoint) ==
    Dot(GetMatrix(cjoint), Pinv(GetMatrix(pjoint)))

\* the matrix of the child joint relative to the parent joint
RelativeJointMatrix(pjoint, cjoint) ==
    Dot(Pinv(GetMatrix(pjoint)), GetMatrix(cjoint))

\* the matrix of the child link relative to its joint
RelativeLinkMatrix(cjoint, clink) ==
    Dot(Pinv(GetMatrix(cjoint)), GetMatrix(clink))

\* cjoint2: the copy of the child joint that is emitted
ConvertJoint(pjoint, cjoint) ==
    [cjoint EXCEPT !.matrix = RelativeJointMatrix(pjoint, cjoint),
                   !.trans = None, !.rot = None]

\* clink2 before the mass check: the copy of the child link that is emitted
ConvertLink(cjoint, clink) ==
    [clink EXCEPT !.matrix = RelativeLinkMatrix(cjoint, clink),
                  !.trans = None, !.rot = None]

\* the mass check of clink2: <<link, warnings logged>>
ClampMass(l) ==
    IF l.mass = 0
    THEN <<[l EXCEPT !.mass = SmallMass],
           <<"detect link with mass zero, assigning small (0.001) mass.">>>>
    ELSE <<l, <<>>>>

\* clink2.translate(clink2.getmatrix()) when the link does not sit on its
\* joint; the model records the matrix the link was translated by
TranslateLink(l) ==
    IF ~AllcloseIdentity(GetMatrix(l))
    THEN [l EXCEPT !.translated = GetMatrix(l)]
    ELSE l

\* mutant of ConvertAppend: the joint and its child link are put in front of
\* what the recursion handed back
ConvertPrepend(sub, cjoint, warnings) ==
    [joints |-> <<cjoint.name>> \o sub.joints,
     links  |-> <<cjoint.child>> \o sub.links,
     log    |-> sub.log \o warnings,
     err    |-> NoneStr]

\* the end of one pass of the loop of convertchildren: the joint and its
\* child link are appended to the lists the recursion handed back
ConvertAppend(sub, cjoint, warnings) ==
    [joints |-> Append(sub.joints, cjoint.name),
     links  |-> Append(sub.links, cjoint.child),
     log    |-> sub.log \o warnings,
     err    |-> NoneStr]

\* mutant of DeepCopyLink: clink2 is the stored link itself, so that what is
\* assigned to it is assigned to the link of the body
AliasedLink(ls, clink, clink2) ==
    [k \in 1..Len(ls) |-> IF ls[k].name = clink.name THEN clink2 ELSE ls[k]]

\* mdata.links after `clink2 = copy.deepcopy(clink)` and the assignments to
\* clink2: the link of the body is not touched
DeepCopyLink(ls, clink, clink2) == ls

\* mdata.joints after `cjoint2 = copy.deepcopy(cjoint)` and the assignments
\* to cjoint2: the joint of the body is not touched
DeepCopyJoint(js, cjoint, cjoint2) == js

RECURSIVE ConvertChildren(_, _, _, _)
RECURSIVE ConvertLoop(_, _, _, _, _, _)

\* the loop `for cjoint in utils.findchildren(mdata, pjoint.child)` over the
\* joints cjs still to visit; ls and js are mdata.links and mdata.joints as
\* the passes before left them; acc = [joints, links, log, err] are the two
\* lists handed through the recursion, the warnings and the exception
ConvertLoop(ls0, js0, pjoint, cjs, children0, acc0) ==
    With(<<children0, acc0, ls0, js0>>, LAMBDA m :
        LET children == m[1]
            acc == m[2]
            ls == m[3]
            js == m[4]
        IN  IF cjs = <<>> \/ acc.err # NoneStr
            THEN [children |-> children, joints |-> acc.joints, links |-> acc.links,
                  log |-> acc.log, err |-> acc.err, mlinks |-> ls, mjoints |-> js]
            ELSE With(ConvertChildren(ls, js, Head(cjs), acc), LAMBDA sub :
                LET cjoint == Head(cjs)
                    clink  == LinkMap(ls, cjoint.child)
                    cjoint2 == ConvertJoint(pjoint, cjoint)
                    cm     == ClampMass(ConvertLink(cjoint, clink))
                    clink2 == TranslateLink(cm[1])
                    jt     == ConvertJointType(cjoint.jointType)
                    nmodel == [joint |-> cjoint2, jointtype |-> jt,
                               link |-> clink2, children |-> sub.children]
                    ls2    == DeepCopyLink(sub.mlinks, clink, clink2)
                    js2    == DeepCopyJoint(sub.mjoints, cjoint, cjoint2)
                IN  IF sub.err # NoneStr
                    THEN [sub EXCEPT !.children = children]
                    ELSE IF jt = NoneStr
                    THEN [children |-> children, joints |-> sub.joints,
                          links |-> sub.links, log |-> sub.log \o cm[2],
                          err |-> "unsupported joint type: " \o cjoint.jointType,
                          mlinks |-> ls2, mjoints |-> js2]
                    ELSE ConvertLoop(ls2, js2, pjoint, Tail(cjs), Append(children, nmodel),
                             ConvertAppend(sub, cjoint, cm[2]))))

\* convertchildren(mdata, pjoint, joints, links)
ConvertChildren(ls, js, pjoint, acc) ==
    ConvertLoop(ls, js, pjoint, FindChildren(js, pjoint.child), <<>>, acc)

\* mutant of RootJoint: the translation and the rotation are left set
RootJointKeepsPose(root, jointtype, rootlink) ==
    [NewJoint EXCEPT !.name = root, !.jointType = jointtype,
                     !.matrix = GetMatrix(rootlink), !.child = root]

\* renderchildren, the joint made for the root link
RootJoint(root, jointtype, rootlink) ==
    [NewJoint EXCEPT !.name = root, !.jointType = jointtype,
                     !.matrix = GetMatrix(rootlink), !.trans = None, !.rot = None,
                     !.child = root]

\* mutant of RootJointId: only a free root goes without an id of its own
RootJointIdFreeOnly(root, jointtype) ==
    IF jointtype = "free"
    THEN <<<<>>, 0>>
    ELSE <<(root :> 0), 1>>

\* renderchildren, the joint map before the joints under the root are
\* numbered: <<jointmap, jointcount>>
RootJointId(root, jointtype) ==
    IF jointtype \in {"free", "fixed"}
    THEN <<<<>>, 0>>
    ELSE <<(root :> 0), 1>>

RECURSIVE NumberJoints(_, _, _)
\* `for j in joints: jointmap[j] = jointcount; jointcount = jointcount + 1`
NumberJoints(names, jointmap0, jointcount) ==
    With(jointmap0, LAMBDA jointmap :
        IF names = <<>> THEN jointmap
        ELSE NumberJoints(Tail(names), (Head(names) :> jointcount) @@ jointmap,
                          jointcount + 1))

RECURSIVE ZeroJoints(_, _)
\* `for j in joints: jointmap[j] = 0`
ZeroJoints(names, jointmap0) ==
    With(jointmap0, LAMBDA jointmap :
        IF names = <<>> THEN jointmap
        ELSE ZeroJoints(Tail(names), (Head(names) :> 0) @@ jointmap))

\* renderchildren, the assignment of jointId
AssignJointIds(root, jointtype, names) ==
    LET b == RootJointId(root, jointtype)
    IN  NumberJoints(names, ZeroJoints(names, b[1]), b[2])

\* renderchildren(mdata, root, jointtype, fname, ...): what is handed to the
\* template and written to fname; err is set when the call raised, and
\* nothing is written then; mlinks and mjoints are mdata.links and
\* mdata.joints when the call ends
RenderChildren(ls, js, root, jointtype, fname) ==
    LET rootlink  == LinkMap(ls, root)
        rootjoint == RootJoint(root, jointtype, rootlink)
    IN  With(ConvertChildren(ls, js, rootjoint,
                 [joints |-> <<>>, links |-> <<>>, log |-> <<>>, err |-> NoneStr]),
             LAMBDA cc :
        [fname |-> fname, root |-> root, jointtype |-> jointtype,
         model |-> [link |-> rootlink, joint |-> rootjoint,
                    jointtype |-> rootjoint.jointType, children |-> cc.children],
         links |-> cc.links, joints |-> cc.joints,
         jointmap |-> AssignJointIds(root, jointtype, cc.joints),
         log |-> cc.log, err |-> cc.err,
         mlinks |-> cc.mlinks, mjoints |-> cc.mjoints])

----------------------------------------------------------------------------
(* The inputs: source models for the reader, bodies for the writer *)

\* local poses of the source links: translation, <<axis, quarter turns>>
Poses ==
    << [t |-> <<0, 0, 0>>,  r |-> <<"z", 0>>],
       [t |-> <<1, 0, 0>>,  r |-> <<"z", 1>>],
       [t |-> <<0, 2, -1>>, r |-> <<"x", 1>>],
       [t |-> <<0, 0, 3>>,  r |-> <<"y", 3>> ] >>

PoseOf(i) == Poses[((i - 1) % Len(Poses)) + 1]

\* what else a source link carries: joint type tag, limits, mass, segments
\* and shape indices ("free" is a tag readChild does not support)
Attrs ==
    << [tag |-> "rotate",  limited |-> TRUE,  mass |-> 1000, seg |-> FALSE, shp |-> <<0>>],
       [tag |-> "rotate",  limited |-> FALSE, mass |-> 0,    seg |-> TRUE,  shp |-> <<0, 0>>],
       [tag |-> "slide",   limited |-> TRUE,  mass |-> 0,    seg |-> FALSE, shp |-> <<>>],
       [tag |-> "crawler", limited |-> FALSE, mass |-> 1000, seg |-> FALSE, shp |-> <<1>>],
       [tag |-> "free",    limited |-> FALSE, mass |-> 1000, seg |-> FALSE, shp |-> <<>>] >>

\* the trees on the links 1..n with root 1: the parent of every other link
ParentMaps(n) == {p \in [2..n -> 1..n] : \A i \in 2..n : p[i] < i}

RECURSIVE Reverse(_)
Reverse(q) == IF q = <<>> THEN <<>> ELSE Append(Reverse(Tail(q)), Head(q))

\* childIndices of link i: its children, by increasing or decreasing index
ChildIndices(n, par, i, rev) ==
    LET up == SortedSeq({c \in 2..n : par[c] = i})
    IN  IF rev THEN Reverse(up) ELSE up

SrcName(i) == "L" \o ToString(i)

\* one link of the loaded model (OpenHRP LinkInfo)
SrcLink(n, par, rev, i, tag, pose, a) ==
    [name |-> SrcName(i), jointType |-> tag, jointId |-> i - 1,
     jointAxis |-> <<0, 0, 1>>,
     childIndices |-> ChildIndices(n, par, i, rev),
     translation |-> pose.t, rotation |-> pose.r,
     mass |-> a.mass,
     segments |-> IF a.seg THEN <<"S" \o ToString(i)>> ELSE <<>>,
     shapeIndices |-> a.shp,
     ulimit |-> IF a.limited THEN <<1>> ELSE <<>>,
     llimit |-> IF a.limited THEN <<-1>> ELSE <<>>]

\* an extra joint closing a loop from the last link back to the root
SrcExtraJoint(n) ==
    [name |-> "X", link |-> <<SrcName(n), SrcName(1)>>, axis |-> <<1, 0, 0>>,
     point |-> <<<<0, 0, 0>>, <<1, 1, 1>>>>]

\* the source models that vary the local poses
PoseModels ==
    {[name |-> "robot",
      links |-> [i \in 1..n |->
                    SrcLink(n, par, rev, i, IF i = 1 THEN rt ELSE "rotate",
                            Poses[ps[i]], Attrs[1])],
      extraJoints |-> <<>>] :
        <<n, par, rev, rt, ps>> \in
            UNION {{<<m, p, r, t, q>> : p \in ParentMaps(m), r \in BOOLEAN,
                                        t \in {"fixed", "free"},
                                        q \in [1..m -> 1..Len(Poses)]} :
                   m \in 1..MaxLinks}}

\* the source models that vary types, masses, names, shapes and closed loops
AttrModels ==
    {[name |-> "robot",
      links |-> [i \in 1..n |->
                    SrcLink(n, par, rev, i,
                            IF i = 1 THEN rt ELSE Attrs[as[i]].tag,
                            PoseOf(i + 1), Attrs[as[i]])],
      extraJoints |-> IF x /\ n >= 3 THEN <<SrcExtraJoint(n)>> ELSE <<>>] :
        <<n, par, rev, rt, as, x>> \in
            UNION {{<<m, p, r, t, a, e>> : p \in ParentMaps(m), r \in BOOLEAN,
                                           t \in {"fixed", "free"},
                                           a \in [1..m -> 1..Len(Attrs)],
                                           e \in BOOLEAN} :
                   m \in 1..MaxLinks}}

SourceModels == PoseModels \cup AttrModels

\* what a link of a body built by another reader carries: the type of its
\* joint, its mass, and whether the link sits off its joint
Kinds ==
    << [type |-> J_REVOLUTE,  mass |-> 1000, off |-> FALSE],
       [type |-> J_REVOLUTE2, mass |-> 0,    off |-> FALSE],
       [type |-> J_FIXED,     mass |-> 0,    off |-> TRUE] >>

\* the forests on the links 1..n: the parent of a link is an earlier link,
\* the world (0), or nothing (-1)
BodyParents(n) == {p \in [1..n -> -1..n] : \A i \in 1..n : p[i] < i}

BodyName(i) == IF i = 0 THEN "world" ELSE "B" \o ToString(i)

PoseMatrix(pose) == ComposeMatrix(pose.t, QuaternionAboutAxis(pose.r[2], pose.r[1]))

\* link i of such a body, with an absolute pose
BodyLink(i, par, k) ==
    IF par[i] = -1
    THEN [NewLink EXCEPT !.name = BodyName(i), !.mass = k.mass,
                         !.trans = PoseOf(i).t,
                         !.rot = QuaternionAboutAxis(PoseOf(i).r[2], PoseOf(i).r[1])]
    ELSE [NewLink EXCEPT !.name = BodyName(i), !.mass = k.mass,
                         !.matrix = IF k.off
                                    THEN Dot(PoseMatrix(PoseOf(i)), PoseMatrix(Poses[2]))
                                    ELSE PoseMatrix(PoseOf(i)),
                         !.trans = None, !.rot = None]

\* the joint that enters link i, with an absolute pose
BodyJoint(i, par, k) ==
    [NewJoint EXCEPT !.name = "J" \o ToString(i),
                     !.parent = BodyName(par[i]), !.child = BodyName(i),
                     !.jointType = k.type,
                     !.axis = [NewAxis EXCEPT !.axis = <<0, 0, 1>>],
                     !.axis2 = [NewAxis EXCEPT !.axis = <<0, 1, 0>>],
                     !.matrix = PoseMatrix(PoseOf(i)), !.trans = None, !.rot = None]

\* the bodies that vary the forest, the joint types and the masses; wl says
\* whether the body lists a link named "world"
Bodies ==
    {[links  |-> (IF wl THEN <<[NewLink EXCEPT !.name = "world"]>> ELSE <<>>)
                 \o [i \in 1..n |-> BodyLink(i, par, Kinds[ks[i]])],
      joints |-> LET idx == SortedSeq({i \in 1..n : par[i] >= 0})
                 IN  [j \in 1..Len(idx) |-> BodyJoint(idx[j], par, Kinds[ks[idx[j]]])],
      shapes |-> <<>>] :
        <<n, par, ks, wl>> \in
            UNION {{<<m, p, k, w>> : p \in BodyParents(m),
                                     k \in [1..m -> 1..Len(Kinds)],
                                     w \in BOOLEAN} :
                   m \in 1..MaxLinks}}

ShapeNames == {"s", "a-visual", "a-collision"}
ShapeRoles == {"visual", "collision", "both"}

\* the shape objects of link l in the list `role`, in the order of creation
ShapesOf(objs, l, role) ==
    SortedSeq({o \in 1..Len(objs) : objs[o].link = l /\ objs[o].role \in {role, "both"}})

\* the bodies that vary the shapes: world -> a -> b, with up to MaxShapes
\* shape objects, each in the visuals, the collisions or both lists of a link
ShapeBodies ==
    {[links  |-> [l \in 1..2 |->
                    [NewLink EXCEPT !.name = <<"a", "b">>[l], !.mass = 1000,
                                    !.matrix = PoseMatrix(PoseOf(l + 1)),
                                    !.trans = None, !.rot = None,
                                    !.visuals = ShapesOf(objs, l, "visual"),
                                    !.collisions = ShapesOf(objs, l, "collision")]],
      joints |-> << [NewJoint EXCEPT !.name = "ja", !.parent = "world", !.child = "a",
                                     !.jointType = J_FIXED,
                                     !.matrix = PoseMatrix(PoseOf(2)),
                                     !.trans = None, !.rot = None],
                    [NewJoint EXCEPT !.name = "jb", !.parent = "a", !.child = "b",
                                     !.jointType = J_REVOLUTE,
                                     !.matrix = PoseMatrix(PoseOf(3)),
                                     !.trans = None, !.rot = None] >>,
      shapes |-> [o \in 1..Len(objs) |-> objs[o].name]] :
        objs \in UNION {[1..k -> [name : ShapeNames, link : 1..2, role : ShapeRoles]] :
                        k \in 0..MaxShapes}}

----------------------------------------------------------------------------
(* The pipeline *)

\* the file name the caller gives to write, and its base name
FileName == "out.wrl"
BaseName == "out"

InitRead ==
    /\ pc = "read"
    /\ src \in SourceModels
    /\ mname = NoneStr
    /\ links = <<>>
    /\ joints = <<>>
    /\ shapes = <<>>

InitWrite ==
    /\ pc = "write"
    /\ src = None
    /\ mname = ""
    /\ \E b \in Bodies \cup ShapeBodies :
          /\ links = b.links
          /\ joints = b.joints
          /\ shapes = b.shapes

\* nothing written yet
InitWriter ==
    /\ uuids = 0
    /\ froots = <<>>
    /\ roots = <<>>
    /\ files = <<>>
    /\ direct = None
    /\ log = <<>>

Init ==
    /\ InitRead \/ InitWrite
    /\ InitWriter
    /\ sdata = None
    /\ mesh = None
    /\ conn = None

\* VRMLReader.read: the body model it returns, or the exception it raises
Read ==
    /\ pc = "read"
    /\ \E st \in {ReadModel(src)} :
           IF st.err # NoneStr
           THEN /\ pc' = "readerror"
                /\ UNCHANGED <<mname, links, joints, shapes>>
           ELSE /\ pc' = "write"
                /\ mname' = src.name
                /\ links' = st.links
                /\ joints' = st.joints
                /\ shapes' = st.shapes
    /\ UNCHANGED <<src, uuids, froots, roots, files, direct, log>>
    /\ UNCHANGED <<sdata, mesh, conn>>

\* write: the default name and the decomposition of the revolute2 joints
WriteSplit ==
    /\ pc = "write"
    /\ mname' = IF mname = NoneStr \/ mname = "" THEN BaseName ELSE mname
    /\ \E r \in {SplitRevolute2(1, joints, links)} :
           /\ joints' = r[1]
           /\ links' = r[2]
    /\ pc' = "names"
    /\ UNCHANGED <<src, shapes, uuids, froots, roots, files, direct, log>>
    /\ UNCHANGED <<sdata, mesh, conn>>

\* write: the check for same names in visuals or collisions
WriteNames ==
    /\ pc = "names"
    /\ \E st \in {NameLinks(links, [shapes |-> shapes, used |-> {}, uuids |-> uuids])} :
           /\ shapes' = st.shapes
           /\ uuids' = st.uuids
    /\ pc' = "roots"
    /\ UNCHANGED <<src, mname, links, joints, froots, roots, files, direct, log>>
    /\ UNCHANGED <<sdata, mesh, conn>>

\* write: the roots found and the list of the roots to render
WriteRoots ==
    /\ pc = "roots"
    /\ froots' = FindRoot(links, joints)
    /\ roots' = ClassifyRoots(froots', joints)
    /\ pc' = "render"
    /\ UNCHANGED <<src, mname, links, joints, shapes, uuids, files, direct, log>>
    /\ UNCHANGED <<sdata, mesh, conn>>

\* write: one pass of `for r in roots`
RenderRoot ==
    /\ pc = "render"
    /\ Len(files) < Len(roots)
    /\ \E res \in {RenderChildren(links, joints, roots[Len(files) + 1][1],
                                    roots[Len(files) + 1][2],
                                    ModelFileName(FileName, mname, roots,
                                                  roots[Len(files) + 1]))} :
           /\ log' = log \o res.log
           /\ links' = res.mlinks
           /\ joints' = res.mjoints
           /\ IF res.err # NoneStr
              THEN /\ pc' = "writeerror"
                   /\ files' = files
              ELSE /\ pc' = pc
                   /\ files' = Append(files, res)
    /\ UNCHANGED <<src, mname, shapes, uuids, froots, roots, direct>>
    /\ UNCHANGED <<sdata, mesh, conn>>

\* write: the project files, after the last root
WriteProject ==
    /\ pc = "render"
    /\ Len(files) = Len(roots)
    /\ pc' = "done"
    /\ UNCHANGED <<src, mname, links, joints, shapes, uuids, froots, roots, files, direct, log>>
    /\ UNCHANGED <<sdata, mesh, conn>>

\* the joint type of a caller that renders a root as an ordinary joint
DirectJointTypes == {"rotate"}

\* renderchildren called on its own, for a root of the body just written
RenderDirect ==
    /\ pc = "done"
    /\ direct = None
    /\ \E k \in 1..Len(roots), jt \in DirectJointTypes :
          \E res \in {RenderChildren(links, joints, roots[k][1], jt, "direct.wrl")} :
              /\ direct' = res
              /\ log' = log \o res.log
              /\ links' = res.mlinks
              /\ joints' = res.mjoints
    /\ UNCHANGED <<pc, src, mname, shapes, uuids, froots, roots, files>>
    /\ UNCHANGED <<sdata, mesh, conn>>

Next ==
    \/ Read
    \/ WriteSplit
    \/ WriteNames
    \/ WriteRoots
    \/ RenderRoot
    \/ WriteProject
    \/ RenderDirect

Spec == Init /\ [][Next]_vars

----------------------------------------------------------------------------
(* VRMLReader.readMesh *)

\* bounds of the meshes
MaxTriangles == 2
MaxNormals == 3
MaxNormalIndices == 3

\* model.MeshData()
NewMeshData ==
    [vertex |-> None, vertex_index |-> None, normal |-> None, normal_index |-> None,
     material |-> None, uvmap |-> None, uvmap_index |-> None]

\* numpy.array(flat).reshape(len(flat)/w, w), for a length that w divides
Reshape(flat, w) ==
    [r \in 1..(Len(flat) \div w) |-> [c \in 1..w |-> flat[(r - 1) * w + c]]]

\* readMesh, per-face normals: every index appended three times
ReplicateIndices(idx) == [k \in 1..(3 * Len(idx)) |-> idx[((k - 1) \div 3) + 1]]

\* range(0, n)
Range(n) == [i \in 1..n |-> i - 1]

\* readMesh: the normals and their indices
ReadNormalIndex(data, adata) ==
    IF adata.normalPerVertex
    THEN IF Len(adata.normalIndices) > 0
         THEN Reshape(adata.normalIndices, 3)
         ELSE data.vertex_index
    ELSE IF Len(adata.normalIndices) > 0
         THEN Reshape(ReplicateIndices(adata.normalIndices), 3)
         ELSE Reshape(ReplicateIndices(Range(Len(adata.normals) \div 3)), 3)

\* readMesh: the material, its texture and the uv map
ReadMaterial(data, adata, materials, textures) ==
    LET d1 == IF adata.materialIndex >= 0
              THEN [data EXCEPT !.material = materials[adata.materialIndex + 1]]
              ELSE data
    IN  IF d1.material # None /\ adata.textureIndex >= 0
        THEN [d1 EXCEPT !.material = [@ EXCEPT !.texture = textures[adata.textureIndex + 1]],
                        !.uvmap = Reshape(adata.textureCoordinate, 2),
                        !.uvmap_index = Reshape(adata.textureCoordIndices, 3)]
        ELSE d1

\* readMesh(sdata): sd holds the shape, its appearance (the entry
\* sdata.appearanceIndex of self._hrpapperances), the materials read and the
\* urls of the textures; reshape raises ValueError for a length that the
\* width does not divide
ReadMesh(sd) ==
    LET adata == sd.appearance
        bad == \/ Len(sd.vertices) % 3 # 0
               \/ Len(sd.triangles) % 3 # 0
               \/ Len(adata.normals) % 3 # 0
               \/ adata.normalPerVertex /\ Len(adata.normalIndices) % 3 # 0
        d0 == [NewMeshData EXCEPT !.vertex = Reshape(sd.vertices, 3),
                                  !.vertex_index = Reshape(sd.triangles, 3),
                                  !.normal = Reshape(adata.normals, 3)]
        d1 == [d0 EXCEPT !.normal_index = ReadNormalIndex(d0, adata)]
    IN  IF bad THEN [err |-> "ValueError", data |-> None]
        ELSE [err |-> NoneStr, data |-> ReadMaterial(d1, adata, sd.materials, sd.textures)]

\* the meshes: three vertices, up to MaxTriangles triangles over them, up to
\* MaxNormals normals, up to MaxNormalIndices indices of normals
MeshVertices == <<0, 0, 0, 1, 0, 0, 0, 1, 0>>
MeshTriangles(t) == [k \in 1..(3 * t) |-> (k - 1) % 3]
MeshNormals(n) == [k \in 1..(3 * n) |-> IF k % 3 = 0 THEN 1 ELSE 0]
MeshMaterial == [name |-> "material-0", texture |-> NoneStr]

MeshInputs ==
    {[vertices |-> MeshVertices,
      triangles |-> MeshTriangles(t),
      appearance |-> [normalPerVertex |-> pv,
                      normals |-> MeshNormals(n),
                      normalIndices |-> ni,
                      materialIndex |-> mi,
                      textureIndex |-> mi,
                      textureCoordinate |-> <<0, 0, 1, 0, 0, 1>>,
                      textureCoordIndices |-> MeshTriangles(t)],
      materials |-> <<MeshMaterial>>,
      textures |-> <<"texture.png">>] :
      t \in 0..MaxTriangles, pv \in BOOLEAN, mi \in {-1, 0},
      n \in 0..MaxNormals,
      ni \in UNION {[1..k -> 0..(MaxNormals - 1)] : k \in 0..MaxNormalIndices}}

InitMesh ==
    /\ pc = "mesh"
    /\ sdata \in MeshInputs
    /\ mesh = None
    /\ src = None
    /\ mname = NoneStr
    /\ links = <<>>
    /\ joints = <<>>
    /\ shapes = <<>>
    /\ InitWriter
    /\ conn = None

\* one call of readMesh
ReadMeshCall ==
    /\ pc = "mesh"
    /\ \E res \in {ReadMesh(sdata)} :
          IF res.err # NoneStr
          THEN pc' = "mesherror" /\ mesh' = mesh
          ELSE pc' = "meshdone" /\ mesh' = res.data
    /\ UNCHANGED <<src, mname, links, joints, shapes, uuids, froots, roots, files, direct, log>>
    /\ UNCHANGED <<sdata, conn>>

NextMesh == ReadMeshCall

SpecMesh == InitMesh /\ [][NextMesh]_vars

----------------------------------------------------------------------------
(* VRMLReader.read: the connection to the model loader *)

\* `for t in range(0, 6)` and `if t == 5`, and the seconds of time.sleep(1)
RetryRange == 6
RetryLast == 5
SleepSeconds == 1

\* what one attempt (resolveModelLoader, then self._loader.clearData) ends
\* with: no exception, NotFound from the name service, TRANSIENT from
\* resolveModelLoader, or TRANSIENT from clearData after the loader was resolved
AttemptOutcomes == {"ok", "NotFound", "TRANSIENT", "TRANSIENT-clearData"}

\* the attempt set self._loader
LoaderResolved(o) == o \in {"ok", "TRANSIENT-clearData"}

\* what resolveModelLoader logs itself before it raises again
ResolveLog(o) ==
    IF o = "NotFound"
    THEN <<"unable to resolve OpenHRP model loader on CORBA name service">>
    ELSE <<>>

\* mutant of RetryGivesUp: the comparison is made with the end of the range
RetryGivesUpLate(t) == t = RetryRange

\* read, `if t == 5` in the loop of the retries
RetryGivesUp(t) == t = RetryLast

\* the processes started by calls of read before this one (the global plist)
PriorProcesses == {<<>>, <<"openhrp-model-loader">>}

\* the state of one call of read up to loadBodyInfo, and of the global plist
NewConnection(prior) ==
    [attempts |-> <<>>,          \* the outcome of every attempt so far
     t |-> 0,                    \* the loop variable of the retries
     loader |-> FALSE,           \* self._loader is set
     prior |-> prior,            \* the global plist when read was called
     plist |-> prior,            \* the global plist
     spawned |-> 0,              \* calls of subprocess.Popen
     slept |-> 0,                \* seconds spent in time.sleep
     loaded |-> FALSE,           \* loadBodyInfo was called
     terminated |-> <<>>,        \* the processes terminator() has terminated
     log |-> <<>>]

InitConnect ==
    /\ pc = "connect"
    /\ conn \in {NewConnection(prior) : prior \in PriorProcesses}
    /\ src = None
    /\ mname = NoneStr
    /\ links = <<>>
    /\ joints = <<>>
    /\ shapes = <<>>
    /\ InitWriter
    /\ sdata = None
    /\ mesh = None

\* read: the first try block
ResolveFirst ==
    /\ pc = "connect"
    /\ \E o \in AttemptOutcomes :
          /\ conn' = [conn EXCEPT !.attempts = Append(@, o),
                                  !.loader = @ \/ LoaderResolved(o),
                                  !.log = @ \o ResolveLog(o)]
          /\ pc' = IF o = "ok" THEN "load" ELSE "spawn"
    /\ UNCHANGED <<src, mname, links, joints, shapes, uuids, froots, roots, files, direct, log>>
    /\ UNCHANGED <<sdata, mesh>>

\* read: the handler of the first try block up to the loop
SpawnLoader ==
    /\ pc = "spawn"
    /\ conn' = [conn EXCEPT !.log = Append(@, "try running openhrp-model-loader"),
                            !.plist = Append(@, "openhrp-model-loader"),
                            !.spawned = @ + 1,
                            !.t = 0]
    /\ pc' = "retry"
    /\ UNCHANGED <<src, mname, links, joints, shapes, uuids, froots, roots, files, direct, log>>
    /\ UNCHANGED <<sdata, mesh>>

\* read: one pass of `for t in range(0, 6)` up to the sleep
Retry ==
    /\ pc = "retry"
    /\ IF conn.t >= RetryRange
       THEN /\ pc' = "load"
            /\ conn' = conn
       ELSE IF RetryGivesUp(conn.t)
       THEN /\ pc' = "connecterror"
            /\ conn' = [conn EXCEPT !.log = Append(@, "unable to find openhrp-model-loader")]
       ELSE \E o \in AttemptOutcomes :
               /\ conn' = [conn EXCEPT
                             !.attempts = Append(@, o),
                             !.loader = @ \/ LoaderResolved(o),
                             !.log = @ \o ResolveLog(o) \o
                                     (IF o = "ok" THEN <<"resolved openhrp-model-loader">>
                                      ELSE <<>>)]
               /\ pc' = IF o = "ok" THEN "load" ELSE "sleep"
    /\ UNCHANGED <<src, mname, links, joints, shapes, uuids, froots, roots, files, direct, log>>
    /\ UNCHANGED <<sdata, mesh>>

\* read: time.sleep(1) in the handler of the loop, and the next t
Sleep ==
    /\ pc = "sleep"
    /\ conn' = [conn EXCEPT !.slept = @ + SleepSeconds, !.t = @ + 1]
    /\ pc' = "retry"
    /\ UNCHANGED <<src, mname, links, joints, shapes, uuids, froots, roots, files, direct, log>>
    /\ UNCHANGED <<sdata, mesh>>

\* read: self._loader.loadBodyInfo(f); without a loader the call raises
\* AttributeError, and TRANSIENT is logged and raised again
LoadBodyInfo ==
    /\ pc = "load"
    /\ IF ~conn.loader
       THEN /\ pc' = "loaderror"
            /\ conn' = [conn EXCEPT !.loaded = TRUE]
       ELSE \E o \in {"ok", "TRANSIENT"} :
               /\ pc' = IF o = "ok" THEN "loaded" ELSE "loaderror"
               /\ conn' = [conn EXCEPT
                             !.loaded = TRUE,
                             !.log = @ \o (IF o = "ok" THEN <<>>
                                           ELSE <<"unable to connect to model loader corba service">>)]
    /\ UNCHANGED <<src, mname, links, joints, shapes, uuids, froots, roots, files, direct, log>>
    /\ UNCHANGED <<sdata, mesh>>

\* terminator(), registered with atexit: every process of plist is terminated
Terminator ==
    /\ pc \in {"loaded", "loaderror", "connecterror"}
    /\ conn.terminated # conn.plist
    /\ conn' = [conn EXCEPT !.terminated = conn.plist]
    /\ UNCHANGED <<pc, src, mname, links, joints, shapes, uuids, froots, roots, files, direct, log>>
    /\ UNCHANGED <<sdata, mesh>>

NextConnect ==
    \/ ResolveFirst
    \/ SpawnLoader
    \/ Retry
    \/ Sleep
    \/ LoadBodyInfo
    \/ Terminator

\* read runs on: no step of it waits for another process
SpecConnect == InitConnect /\ [][NextConnect]_vars /\ WF_vars(NextConnect)

----------------------------------------------------------------------------
(* What the claims speak about *)

\* the model files written so far
Rendered == {files[k] : k \in 1..Len(files)}

RECURSIVE NodesOf(_)
\* every node of the trees in the list `children` of a rendered model
NodesOf(children) ==
    UNION {{children[k]} \cup NodesOf(children[k].children) : k \in 1..Len(children)}

\* the source link a joint of the reader was built from
SrcLinkNamed(name) ==
    src.links[CHOOSE i \in 1..Len(src.links) : src.links[i].name = name]

\* the local transform the source gives a link
LocalMatrix(h) ==
    ComposeMatrix(h.translation, QuaternionAboutAxis(h.rotation[2], h.rotation[1]))

TranslationOf(M) == <<M[1][4], M[2][4], M[3][4]>>
RotationOf(M) == [i \in 1..3 |-> [j \in 1..3 |-> M[i][j]]]

----------------------------------------------------------------------------
(* C1: round trip.  For a model read by VRMLReader (absolute pose = parent *)
(* absolute pose x local pose) and decomposed by convertchildren, the      *)
(* relative pose of every non-root joint is the local translation and      *)
(* rotation the source gave that joint.                                    *)

C1_RoundTrip ==
    src # None =>
        \A f \in Rendered : \A nd \in NodesOf(f.model.children) :
            LET h == SrcLinkNamed(nd.joint.name)
            IN  /\ nd.joint.matrix = LocalMatrix(h)
                /\ TranslationOf(nd.joint.matrix) = h.translation
                /\ RotationOf(nd.joint.matrix) =
                      QuaternionMatrix(QuaternionAboutAxis(h.rotation[2], h.rotation[1]))

\* a chain of three links is rendered whose poses do not commute
C1_Witness ==
    /\ src # None
    /\ pc = "done"
    /\ \E f \in Rendered : \E nd \in NodesOf(f.model.children) :
          /\ nd.children # <<>>
          /\ GetMatrix(f.model.joint) # Identity4
          /\ Dot(nd.joint.matrix, nd.children[1].joint.matrix)
                # Dot(nd.children[1].joint.matrix, nd.joint.matrix)
          /\ Dot(GetMatrix(f.model.joint), nd.joint.matrix)
                # Dot(nd.joint.matrix, GetMatrix(f.model.joint))

----------------------------------------------------------------------------
(* C2: readChild appends joints and links in depth-first pre-order: the    *)
(* joint and the link of a source node come before those of its            *)
(* descendants, the subtrees of siblings come in the order of the          *)
(* parent's childIndices, and the k-th tree joint has as child the link    *)
(* appended at the same step.                                              *)

RECURSIVE SrcDescendants(_, _)
\* the proper descendants of source link i
SrcDescendants(H, i) ==
    UNION {{H[i].childIndices[k]} \cup SrcDescendants(H, H[i].childIndices[k]) :
           k \in 1..Len(H[i].childIndices)}

\* 1 when the root has no joint of its own (a root that is not fixed)
RootOffset(H) == IF H[1].jointType = "fixed" THEN 0 ELSE 1

\* where the joint and the link of source link i are in the body
PosJ(H, i) == CHOOSE k \in 1..Len(joints) :
                 joints[k].name = H[i].name /\ ~joints[k].offsetPosition
PosL(H, i) == CHOOSE k \in 1..Len(links) : links[k].name = ReadLinkName(H[i])

C2_PreOrder ==
    (pc = "write" /\ src # None) =>
        LET H   == src.links
            n   == Len(H)
            off == RootOffset(H)
        IN  /\ Len(links) = n
            /\ Len(joints) = n - off + Len(src.extraJoints)
            /\ \A k \in 1..(n - off) :
                  /\ ~joints[k].offsetPosition
                  /\ joints[k].child = links[k + off].name
            /\ \A k \in (n - off + 1)..Len(joints) : joints[k].offsetPosition
            /\ \A p \in 1..n : \A c \in SrcDescendants(H, p) :
                  /\ PosL(H, p) < PosL(H, c)
                  /\ (p > off) => PosJ(H, p) < PosJ(H, c)
            /\ \A p \in 1..n : \A k1, k2 \in 1..Len(H[p].childIndices) :
                  k1 < k2 =>
                     LET s1 == H[p].childIndices[k1]
                         s2 == H[p].childIndices[k2]
                     IN  \A d \in {s1} \cup SrcDescendants(H, s1) :
                            /\ PosJ(H, d) < PosJ(H, s2)
                            /\ PosL(H, d) < PosL(H, s2)

\* a model was read whose root lists its two children against their indices
C2_Witness ==
    /\ pc = "write"
    /\ src # None
    /\ Len(src.links) >= 3
    /\ Len(links) = Len(src.links)
    /\ src.links[1].childIndices = <<3, 2>>

----------------------------------------------------------------------------
(* C3: the decomposition pass of write adds, for every revolute2 joint J   *)
(* of the input, exactly one link J.name_REVOLUTE2_LINK and exactly one    *)
(* joint J.name_SECOND (revolute, axis = J's second axis, from the new     *)
(* link to J's child), makes J a revolute joint ending at the new link,    *)
(* and splits no joint it appended; world->link1->link2->link3 with a      *)
(* revolute2 joint between link1 and link2 ends with 4 links and 4 joints. *)

Revolute2Indices(js) == {k \in 1..Len(js) : js[k].jointType = J_REVOLUTE2}

C3_SplitStep ==
    LET R2 == Revolute2Indices(joints)
        nj == Len(joints)
        nl == Len(links)
    IN  /\ Len(joints') = nj + Cardinality(R2)
        /\ Len(links') = nl + Cardinality(R2)
        /\ \A k \in 1..nl : links'[k] = links[k]
        /\ \A k \in (1..nj) \ R2 : joints'[k] = joints[k]
        /\ \A i \in 1..Len(joints') : joints'[i].jointType # J_REVOLUTE2
        /\ \A k \in R2 :
              LET J  == joints[k]
                  ln == J.name \o "_REVOLUTE2_LINK"
                  L2 == {i \in (nl + 1)..Len(links') : links'[i].name = ln}
                  J2 == {i \in (nj + 1)..Len(joints') : joints'[i].name = J.name \o "_SECOND"}
              IN  /\ joints'[k] = [J EXCEPT !.jointType = J_REVOLUTE, !.child = ln]
                  /\ Cardinality(L2) = 1
                  /\ Cardinality(J2) = 1
                  /\ \A i \in J2 :
                        /\ joints'[i].jointType = J_REVOLUTE
                        /\ joints'[i].axis = J.axis2
                        /\ joints'[i].parent = ln
                        /\ joints'[i].child = J.child

C3_Revolute2 == [][pc = "write" => C3_SplitStep]_vars

\* the chain world -> B1 -> B2 -> B3, whose joint J2 was a revolute2 joint,
\* after the pass: 4 links and 4 joints
C3_Witness ==
    /\ pc = "names"
    /\ Len(links) = 4
    /\ Len(joints) = 4
    /\ [k \in 1..4 |-> <<joints[k].name, joints[k].parent, joints[k].child, joints[k].jointType>>]
         = << <<"J1", "world", "B1", J_REVOLUTE>>,
              <<"J2", "B1", "J2_REVOLUTE2_LINK", J_REVOLUTE>>,
              <<"J3", "B2", "B3", J_REVOLUTE>>,
              <<"J2_SECOND", "J2_REVOLUTE2_LINK", "B2", J_REVOLUTE>> >>
    /\ [k \in 1..4 |-> links[k].name] = <<"B1", "B2", "B3", "J2_REVOLUTE2_LINK">>
    /\ joints[4].axis = [NewAxis EXCEPT !.axis = <<0, 1, 0>>]

----------------------------------------------------------------------------
(* C4: after the naming pass of write no two distinct shapes among the     *)
(* visual and collision shapes of the links of the body have the same      *)
(* name, whatever the names were before, also when one shape object is     *)
(* both a visual and a collision of a link.                                *)

\* the shape objects some link lists
ListedShapes ==
    UNION {{links[k].visuals[i] : i \in 1..Len(links[k].visuals)}
           \cup {links[k].collisions[i] : i \in 1..Len(links[k].collisions)} :
           k \in 1..Len(links)}

C4_UniqueShapeNames ==
    pc \in {"roots", "render", "done", "writeerror"} =>
        \A o1, o2 \in ListedShapes : o1 # o2 => shapes[o1] # shapes[o2]

\* the pass has run on a body in which a shape is both a visual and a
\* collision of a link, and it had to generate a unique suffix
C4_Witness ==
    /\ pc = "roots"
    /\ src = None
    /\ uuids > 0
    /\ \E k \in 1..Len(links) : \E i \in 1..Len(links[k].visuals) :
          \E j \in 1..Len(links[k].collisions) :
             links[k].visuals[i] = links[k].collisions[j]

----------------------------------------------------------------------------
(* Joint ids *)

\* what renderchildren has produced: the files of write and the direct call
AllRendered == Rendered \cup (IF direct = None THEN {} ELSE {direct})

\* the ids renderchildren assigned for f
IdsOf(f) == {f.jointmap[x] : x \in DOMAIN f.jointmap}

\* the joints beneath the root of f have names of their own
DistinctNames(f) ==
    /\ Cardinality({f.joints[k] : k \in 1..Len(f.joints)}) = Len(f.joints)
    /\ \A k \in 1..Len(f.joints) : f.joints[k] # f.root

\* the ids are exactly 0..k, the root's own joint having id 0
IdsWithRoot(f) ==
    /\ f.root \in DOMAIN f.jointmap
    /\ f.jointmap[f.root] = 0
    /\ IdsOf(f) = 0..Len(f.joints)
    /\ Cardinality(DOMAIN f.jointmap) = Len(f.joints) + 1

\* the ids are exactly 0..k-1, the root's own joint having none
IdsWithoutRoot(f) ==
    /\ DOMAIN f.jointmap = {f.joints[k] : k \in 1..Len(f.joints)}
    /\ IdsOf(f) = 0..(Len(f.joints) - 1)
    /\ Cardinality(DOMAIN f.jointmap) = Len(f.joints)

(* C5 as stated: when renderchildren renders a single non-free root with k *)
(* non-root joints beneath it, the ids form exactly the range [0, k]       *)
(* without duplicates, and the root's own joint has id 0.                  *)
C5_Original ==
    \A f \in AllRendered :
        (Len(roots) = 1 /\ f.jointtype # "free") => IdsWithRoot(f)

(* C5, amended: when renderchildren renders a root with k joints beneath   *)
(* it (named apart from each other and from the root), the ids form        *)
(* [0, k] with the root's own joint at 0 only if the root's joint type is  *)
(* neither free nor fixed; for a fixed root, as for a free one, the root   *)
(* has no id and the ids form [0, k-1]; in both cases without duplicates.  *)
C5_Contiguous ==
    \A f \in AllRendered :
        DistinctNames(f) =>
            IF f.jointtype \in {"free", "fixed"}
            THEN IdsWithoutRoot(f)
            ELSE IdsWithRoot(f)

\* one body with a single fixed root over two joints or more was written,
\* and the root was rendered again as an ordinary joint
C5_Witness ==
    /\ Len(roots) = 1
    /\ direct # None
    /\ direct.jointtype = "rotate"
    /\ Len(direct.joints) >= 2
    /\ DistinctNames(direct)
    /\ \E f \in Rendered : f.jointtype = "fixed" /\ Len(f.joints) >= 2 /\ DistinctNames(f)

\* the names of the joints of the trees in the list `children`
JointNamesOf(children) == {nd.joint.name : nd \in NodesOf(children)}

\* <<p, c>>: the joint c is beneath the joint p in the trees of `children`
AncestorPairs(children) ==
    UNION {{<<nd.joint.name, c>> : c \in JointNamesOf(nd.children)} :
           nd \in NodesOf(children)}

\* <<a, b>>: a is in the subtree of a sibling that comes before the
\* sibling b, at any level of the trees of `children`
RECURSIVE SiblingPairs(_)
SiblingPairs(children) ==
    UNION ({{<<a, children[k2].joint.name>> :
                a \in JointNamesOf(<<children[k1]>>)} :
            <<k1, k2>> \in {q \in (1..Len(children)) \X (1..Len(children)) : q[1] < q[2]}}
           \cup {SiblingPairs(children[k].children) : k \in 1..Len(children)})

(* C6 as stated: within one root's traversal, for any joint P that is an   *)
(* ancestor of joint C, ID(P) < ID(C) (ids increase in the order of the    *)
(* reader's traversal, parent before children).                            *)
C6_Original ==
    \A f \in AllRendered : \A pr \in AncestorPairs(f.model.children) :
        f.jointmap[pr[1]] < f.jointmap[pr[2]]

(* C6, amended: within one root's traversal the ids follow the order in    *)
(* which convertchildren appends the joints, which is post-order: for a    *)
(* joint P beneath the root that is an ancestor of joint C, ID(C) < ID(P); *)
(* the subtrees of siblings are numbered in the order of the joint list;   *)
(* only a root whose joint type is neither free nor fixed has an id of     *)
(* its own, 0, below every other id.                                       *)
C6_PostOrder ==
    \A f \in AllRendered :
        DistinctNames(f) =>
            /\ \A pr \in AncestorPairs(f.model.children) :
                  f.jointmap[pr[2]] < f.jointmap[pr[1]]
            /\ \A pr \in SiblingPairs(f.model.children) :
                  f.jointmap[pr[1]] < f.jointmap[pr[2]]
            /\ f.root \in DOMAIN f.jointmap =>
                  \A n \in JointNamesOf(f.model.children) :
                      f.jointmap[f.root] < f.jointmap[n]

\* a root was rendered over a joint that has a joint beneath it and a
\* sibling after it, and rendered again with an id of its own
C6_Witness ==
    /\ direct # None
    /\ direct.root \in DOMAIN direct.jointmap
    /\ \E f \in Rendered :
          /\ AncestorPairs(f.model.children) # {}
          /\ SiblingPairs(f.model.children) # {}
          /\ f.root = direct.root
          /\ DistinctNames(f)

----------------------------------------------------------------------------
(* Roots and what is emitted under them *)

\* how often the link `name` is emitted: as the root of a file or in the
\* list of links convertchildren collected for it
TimesEmitted(name) ==
    Cardinality({k \in 1..Len(files) : files[k].root = name})
    + Cardinality({q \in UNION {{<<k, i>> : i \in 1..Len(files[k].links)} :
                                k \in 1..Len(files)} :
                      files[q[1]].links[q[2]] = name})

LinkNames == {links[k].name : k \in 1..Len(links)}

(* C7 as stated: for any body, the roots rendered by write together with   *)
(* the links collected by convertchildren under each root cover every      *)
(* link of the body exactly once.                                          *)
C7_Original ==
    pc = "done" => \A n \in LinkNames : TimesEmitted(n) = 1

(* C7, amended: the roots rendered by write together with the links        *)
(* collected under each root cover every link of the body other than a     *)
(* link named "world" exactly once (the world anchor is never emitted),    *)
(* and nothing is emitted that is not a link of the body.                  *)
C7_Partition ==
    pc = "done" =>
        /\ \A n \in LinkNames \ {"world"} : TimesEmitted(n) = 1
        /\ TimesEmitted("world") = 0
        /\ \A k \in 1..Len(files) :
              /\ files[k].root \in LinkNames
              /\ \A i \in 1..Len(files[k].links) : files[k].links[i] \in LinkNames

\* a body that lists a link "world" and has a fixed and a free mechanism,
\* one of them with links beneath its root, was written
C7_Witness ==
    /\ pc = "done"
    /\ "world" \in LinkNames
    /\ \E k \in 1..Len(files) : files[k].jointtype = "fixed"
    /\ \E k \in 1..Len(files) : files[k].jointtype = "free"
    /\ \E k \in 1..Len(files) : Len(files[k].links) >= 1

----------------------------------------------------------------------------
(* C8 as stated: every link emitted for a root, the root link as well as   *)
(* every descendant link, whose mass is 0 is emitted with mass 0.001, and  *)
(* a warning is logged for it.                                             *)

\* the links handed to the template for f
EmittedLinks(f) == {f.model.link} \cup {nd.link : nd \in NodesOf(f.model.children)}
\* the links beneath the root handed to the template for f
DescendantLinks(f) == {nd.link : nd \in NodesOf(f.model.children)}
\* the joints handed to the template for f
EmittedJoints(f) == {f.model.joint} \cup {nd.joint : nd \in NodesOf(f.model.children)}

ZeroMassWarning == "detect link with mass zero, assigning small (0.001) mass."

C8_ZeroMassClamped ==
    \A f \in Rendered :
        /\ \A e \in EmittedLinks(f) :
              LinkMap(links, e.name).mass = 0 => e.mass = SmallMass
        /\ Cardinality({k \in 1..Len(f.log) : f.log[k] = ZeroMassWarning})
              = Cardinality({e \in EmittedLinks(f) : LinkMap(links, e.name).mass = 0})

----------------------------------------------------------------------------
----------------------------------------------------------------------------
(* C10: write classifies the roots: the root "world" is not emitted and    *)
(* every joint whose parent is "world" contributes its child as a fixed    *)
(* root; every other root is a free root.  One model file is rendered per  *)
(* root of that list, and the caller's file name is used only when the     *)
(* list has exactly one root.                                              *)

\* the roots found, as a set
FoundRoots == {froots[k] : k \in 1..Len(froots)}

C10_RootClasses ==
    pc \in {"render", "done", "writeerror"} =>
        LET fixed == IF "world" \in FoundRoots
                     THEN {<<joints[k].child, "fixed">> :
                              k \in {i \in 1..Len(joints) : joints[i].parent = "world"}}
                     ELSE {}
            free  == {<<r, "free">> : r \in FoundRoots \ {"world"}}
        IN  /\ {roots[k] : k \in 1..Len(roots)} = fixed \cup free
            /\ Len(roots) = Cardinality(fixed \cup free)
            /\ \A k \in 1..Len(files) :
                  /\ files[k].root = roots[k][1]
                  /\ files[k].jointtype = roots[k][2]
                  /\ files[k].model.joint.jointType = roots[k][2]
                  /\ (files[k].fname = FileName) <=> (Len(roots) = 1)
            /\ \A a, b \in 1..Len(files) : a # b => files[a].fname # files[b].fname
            /\ pc = "done" => Len(files) = Len(roots)

\* a body with the world anchor, a fixed and a free root was written
C10_Witness ==
    /\ pc = "done"
    /\ "world" \in FoundRoots
    /\ \E k \in 1..Len(files) : files[k].jointtype = "fixed"
    /\ \E k \in 1..Len(files) : files[k].jointtype = "free"

----------------------------------------------------------------------------
(* C11 as stated: readMesh with per-face normals produces a normal-index   *)
(* array whose every row holds three identical indices, in triangle order: *)
(* with a normal-index list row i is the i-th given index three times,     *)
(* without one row i is [i, i, i]; and the array has as many rows as the   *)
(* vertex-index (triangle) array.                                          *)

\* the rows of the normal-index array are the given indices (or 0, 1, ...)
\* three times each
C11_RowsReplicated ==
    LET given == sdata.appearance.normalIndices
        idx == IF Len(given) > 0 THEN given
               ELSE Range(Len(sdata.appearance.normals) \div 3)
    IN  /\ Len(mesh.normal_index) = Len(idx)
        /\ \A i \in 1..Len(idx) : mesh.normal_index[i] = <<idx[i], idx[i], idx[i]>>

C11_PerFaceNormalIndex ==
    (pc = "meshdone" /\ ~sdata.appearance.normalPerVertex) =>
        /\ C11_RowsReplicated
        /\ Len(sdata.appearance.normalIndices) = 0 =>
              \A i \in 1..Len(mesh.normal_index) :
                  mesh.normal_index[i] = <<i - 1, i - 1, i - 1>>
        /\ Len(mesh.normal_index) = Len(mesh.vertex_index)

----------------------------------------------------------------------------
(* C12: a joint whose type has no mapping aborts the conversion and is     *)
(* never emitted or coerced.  readChild raises for a source tag outside    *)
(* fixed, rotate, slide, crawler, pseudoContinuousTrack before the joint   *)
(* or its link is appended, and read returns no body; convertjointtype     *)
(* raises for a joint type outside fixed, revolute, prismatic, screw,      *)
(* continuous (so for a crawler joint the reader accepted), and the file   *)
(* of the root that holds the joint is not written.                        *)

SupportedTags == {"fixed", "rotate", "slide", "crawler", "pseudoContinuousTrack"}
WritableTypes == {J_FIXED, J_REVOLUTE, J_PRISMATIC, J_SCREW, J_CONTINUOUS}

\* the source links that read hands to readChild: every link but a root
\* that is not fixed
ReadChildLinks ==
    {i \in 1..Len(src.links) : i > 1 \/ src.links[1].jointType = "fixed"}

\* the tag the writer is to emit for a joint type it maps
EmittedTag(t) ==
    IF t = J_FIXED THEN "fixed" ELSE IF t = J_PRISMATIC THEN "slide" ELSE "rotate"

RECURSIVE JointsBeneath(_)
\* the tree joints beneath the link `name`
JointsBeneath(name) ==
    LET cs == {k \in 1..Len(joints) : joints[k].parent = name /\ ~joints[k].offsetPosition}
    IN  cs \cup UNION {JointsBeneath(joints[k].child) : k \in cs}

\* the root holds a joint the writer has no tag for
HoldsUnwritable(root) ==
    \E k \in JointsBeneath(root) : joints[k].jointType \notin WritableTypes

C12_Reader ==
    /\ pc = "readerror" =>
          /\ \E i \in ReadChildLinks : src.links[i].jointType \notin SupportedTags
          /\ links = <<>> /\ joints = <<>> /\ mname = NoneStr
          /\ LET st == ReadModel(src)
             IN  \A i \in ReadChildLinks :
                    src.links[i].jointType \notin SupportedTags =>
                        /\ \A k \in 1..Len(st.joints) : st.joints[k].name # src.links[i].name
                        /\ \A k \in 1..Len(st.links) :
                              st.links[k].name # ReadLinkName(src.links[i])
    /\ (src # None /\ pc \notin {"read", "readerror"}) =>
          \A i \in ReadChildLinks : src.links[i].jointType \in SupportedTags

C12_Writer ==
    pc \in {"render", "done", "writeerror"} =>
        /\ \A k \in 1..Len(files) :
              /\ ~HoldsUnwritable(files[k].root)
              /\ \A nd \in NodesOf(files[k].model.children) :
                    \E j \in JointsBeneath(files[k].root) :
                        /\ joints[j].name = nd.joint.name
                        /\ joints[j].jointType \in WritableTypes
                        /\ nd.jointtype = EmittedTag(joints[j].jointType)
        /\ pc = "writeerror" =>
              /\ Len(files) < Len(roots)
              /\ HoldsUnwritable(roots[Len(files) + 1][1])
        /\ pc = "done" => \A k \in 1..Len(roots) : ~HoldsUnwritable(roots[k][1])

C12_Unsupported == C12_Reader /\ C12_Writer

\* the writer was given a body with a crawler joint the reader accepted,
\* beneath a joint it can write, and raised
C12_Witness ==
    /\ pc = "writeerror"
    /\ src # None
    /\ files = <<>>
    /\ \E k \in 1..Len(joints) : joints[k].jointType = J_CRAWLER
    /\ \E k \in 1..Len(joints) : joints[k].jointType = J_PRISMATIC

----------------------------------------------------------------------------
(* C13: the decomposition of one root is independent of every other root:  *)
(* renderchildren and convertchildren leave the link list, the joint list  *)
(* and every stored pose and mass of the body unchanged (they work on      *)
(* copies), so the tree produced for a root is the same whatever other     *)
(* roots were rendered before it, and in whatever order.                   *)

\* the tree renderchildren produces for a root from the body ls, js alone
TreeAlone(ls, js, r) == RenderChildren(ls, js, r[1], r[2], FileName).model

\* one step of the rendering: the body stays as it is, and every tree
\* rendered so far is the tree its root gets from the body on its own
C13_RenderStep ==
    /\ links' = links
    /\ joints' = joints
    /\ \A k \in 1..Len(files') :
          files'[k].model = TreeAlone(links, joints, roots[k])
    /\ direct' # None =>
          direct'.model = TreeAlone(links, joints, <<direct'.root, direct'.jointtype>>)

----------------------------------------------------------------------------
(* C14: the connection establishment of read always terminates.  If the    *)
(* first attempt to resolve the model loader fails, exactly one loader     *)
(* process is spawned and registered for cleanup, then at most 5 further   *)
(* attempts are made, with a wait of 1 second after each failed one; the   *)
(* first successful attempt ends the retries and the model is loaded; if   *)
(* all 5 fail, read fails with NotFound without a sixth attempt and        *)
(* without loading a model.                                                *)

\* the attempts of the loop that failed
FailedRetries == {i \in 2..Len(conn.attempts) : conn.attempts[i] # "ok"}

\* read has ended, with the model loaded or with an exception
ReadEnded == pc \in {"loaded", "loaderror", "connecterror"}

C14_Bounded ==
    conn # None =>
        LET a == conn.attempts
            firstFailed == Len(a) >= 1 /\ a[1] # "ok"
        IN  /\ Len(a) <= 1 + 5
            /\ \A i \in 1..(Len(a) - 1) : a[i] # "ok"
            /\ conn.spawned = IF firstFailed /\ pc # "spawn" THEN 1 ELSE 0
            /\ conn.plist = conn.prior \o [i \in 1..conn.spawned |-> "openhrp-model-loader"]
            /\ conn.slept = Cardinality(FailedRetries) - (IF pc = "sleep" THEN 1 ELSE 0)
            /\ pc = "load" => a[Len(a)] = "ok"
            /\ conn.loaded => a[Len(a)] = "ok"
            /\ pc = "connecterror" =>
                  /\ Len(a) = 1 + 5
                  /\ \A i \in 1..Len(a) : a[i] # "ok"
                  /\ ~conn.loaded
            /\ (Len(a) = 1 + 5 /\ a[Len(a)] # "ok") => pc \in {"sleep", "retry", "connecterror"}
            /\ ReadEnded => (pc = "connecterror" \/ conn.loaded)
            /\ \A i \in 1..Len(conn.terminated) : conn.terminated[i] = conn.plist[i]

C14_Terminates == []C14_Bounded /\ <>ReadEnded /\ <>[](conn.terminated = conn.plist)

\* the five attempts of the loop failed after the first, and read gave up
C14_Witness ==
    /\ pc = "connecterror"
    /\ Len(conn.attempts) = 6
    /\ conn.slept = 5
    /\ conn.spawned = 1
    /\ conn.terminated = conn.plist

====
